---- MODULE Spec2Model ----
(***************************************************************************)
(* Inventory kiosk: the movement ledger (table inventory_txns), the        *)
(* ingredient master list (table ingredients) and the handlers that read   *)
(* and write them: Post Adjustments and Save Quick Out of show_area_page,  *)
(* save_count_adjustments, save_weekly_usage, the Settings page's Save     *)
(* Changes and the planning queries (pages/7_Order_Planning.py,            *)
(* order_planning_df and the totals of show_order_planning).               *)
(*                                                                         *)
(* Quantities are counted in ticks of 0.00001, so that a value with more   *)
(* than 4 decimal places is representable: 0.0001 is Round4Step ticks and  *)
(* round(x, 4) is the nearest multiple of Round4Step.  The tolerance 1e-9  *)
(* of the source is smaller than one tick: abs(d) < 1e-9 is d = 0 and      *)
(* abs(d) > 1e-9 is d # 0 on every value of the model.                     *)
(***************************************************************************)
EXTENDS Integers, Sequences, FiniteSets, TLC

VARIABLES ingredients, ledger, sess, last, edits

vars == <<ingredients, ledger, sess, last, edits>>

\* ---------------------------------------------------------------- bounds
MaxLedger == 2      \* rows the ledger may hold
MaxEdits == 1       \* saves of the ingredient master list
MaxPlanLedger == 1  \* rows of the ledger under the planning pages

\* ------------------------------------------------------------- constants
Round4Step == 10    \* round(x, 4): 0.0001 in ticks of 0.00001

Ids == {1, 2}                       \* ingredients.id, in name order
Sessions == {"s1", "s2"}            \* browser sessions
Counts == {0, 13}                   \* Physical Count / new_map values
QuickQtys == {0, 3}                 \* Qty (out) of Quick Add, min_value 0.0
Reasons == {"production"}           \* Reason of Quick Add (its default)
SqlNull == "<null>"                 \* SQL NULL of a text column
Areas == {"Kitchen"}
ItemNames == <<"Flour", "Sugar">>   \* ingredients.name of ids 1 and 2
UsageVals == {70}
ParVals == {0}

\* --------------------------------------------------------------- numbers
Abs(x) == IF x < 0 THEN -x ELSE x

Min(S) == CHOOSE x \in S : \A y \in S : x <= y

\* Python round(x, 4) on ticks: nearest multiple of Round4Step, a tie to
\* the even multiple.
RoundPos(x) ==
    LET q == x \div Round4Step
        r == x % Round4Step
    IN  IF 2 * r < Round4Step THEN q * Round4Step
        ELSE IF 2 * r > Round4Step THEN (q + 1) * Round4Step
        ELSE IF q % 2 = 0 THEN q * Round4Step ELSE (q + 1) * Round4Step

Round4(x) == IF x < 0 THEN -RoundPos(-x) ELSE RoundPos(x)

\* Ascending sequence of a finite set of ids ("order by name").
RECURSIVE SortedSeq(_)
SortedSeq(S) ==
    IF S = {} THEN <<>>
    ELSE LET m == Min(S) IN <<m>> \o SortedSeq(S \ {m})

\* ------------------------------------------------------------ SQL pieces
\* The case expression without its sign on the else branch.
SignedQtyNoElse(t) == IF t.type = "in" THEN t.qty ELSE t.qty

\* case when type='in' then qty else -qty end
SignedQty(t) == IF t.type = "in" THEN t.qty ELSE -t.qty

RECURSIVE SumSeq(_)
SumSeq(s) == IF s = <<>> THEN 0 ELSE SignedQty(Head(s)) + SumSeq(Tail(s))

TxnsOf(led, id) == SelectSeq(led, LAMBDA t : t.ingredient_id = id)

\* sum(...) over the rows of one ingredient: NULL (<<>>) over no rows.
SqlSum(led, id) ==
    IF TxnsOf(led, id) = <<>> THEN <<>> ELSE <<SumSeq(TxnsOf(led, id))>>

Coalesce(x, d) == IF x = <<>> THEN d ELSE x[1]

\* onhand_df(): ingredients left join inventory_txns, one row per id.
onhand_df(led, ings) ==
    [i \in DOMAIN ings |-> Coalesce(SqlSum(led, i), 0)]

\* The query with an inner join: only the ingredients that have movements.
load_area_df_inner(led, ings, area) ==
    [i \in {j \in DOMAIN ings :
                ings[j].area = area /\ TxnsOf(led, j) # <<>>} |->
        SumSeq(TxnsOf(led, i))]

\* load_area_df(): the rows of one area with coalesce(o.on_hand, 0).
load_area_df(led, ings, area) ==
    [i \in {j \in DOMAIN ings : ings[j].area = area} |->
        Coalesce(SqlSum(led, i), 0)]

\* ingredient_rows_by_area(area): ids of the area, ordered by name.
ingredient_rows_by_area(ings, area) ==
    SortedSeq({i \in DOMAIN ings : ings[i].area = area})

\* An insert that replaces the newest row instead of adding one.
insert_txn_overwrite(led, id, ttype, qty, source) ==
    LET row == [ingredient_id |-> id, type |-> ttype, qty |-> qty,
                source |-> source]
    IN  IF led = <<>> THEN <<row>> ELSE [led EXCEPT ![Len(led)] = row]

\* insert_txn / run_execute: one row appended and committed.
insert_txn(led, id, ttype, qty, source) ==
    Append(led, [ingredient_id |-> id, type |-> ttype, qty |-> qty,
                 source |-> source])

\* ---------------------------------------------------- Post Adjustments
\* One row of the loop over edited.iterrows(): the delta of the row
\* against the on-hand the page read.
RowDelta(oh, count_now, r) == Round4(count_now[r] - oh[r])

\* The loop of the handler over rows, from the ledger led.  An insert for
\* an id in failing raises: the loop stops there and nothing is reported.
RECURSIVE PostLoop(_, _, _, _, _, _)
PostLoop(led, rows, oh, count_now, failing, posted) ==
    IF rows = <<>> THEN [led |-> led, posted |-> posted, failed |-> 0]
    ELSE LET r == Head(rows)
             delta == RowDelta(oh, count_now, r)
         IN  IF Abs(delta) < 1
             THEN PostLoop(led, Tail(rows), oh, count_now, failing, posted)
             ELSE IF r \in failing
             THEN [led |-> led, posted |-> posted, failed |-> r]
             ELSE PostLoop(insert_txn(led, r,
                                      IF delta > 0 THEN "in" ELSE "out",
                                      Abs(delta), "adjustment"),
                           Tail(rows), oh, count_now, failing, posted + 1)

\* ----------------------------------------------- save_count_adjustments
\* base_map.get(rid, 0.0)
MapGet(m, k, d) == IF k \in DOMAIN m THEN m[k] ELSE d

\* diffs: the entries of new_map that differ from base_map.
Diffs(base_map, new_map) ==
    SortedSeq({rid \in DOMAIN new_map :
                  Abs(new_map[rid] - MapGet(base_map, rid, 0)) > 0})

\* The statement without its where clause.
AdjustStmtNoWhere(led, rid, new_val) ==
    LET on_hand == Coalesce(SqlSum(led, rid), 0)
    IN  insert_txn(led, rid, IF new_val >= on_hand THEN "in" ELSE "out",
                   Abs(new_val - on_hand), "adjustment")

\* One execute of the insert ... select ... from current where new <> on_hand.
AdjustStmt(led, rid, new_val) ==
    LET on_hand == Coalesce(SqlSum(led, rid), 0)
    IN  IF new_val # on_hand
        THEN insert_txn(led, rid,
                        IF new_val >= on_hand THEN "in" ELSE "out",
                        Abs(new_val - on_hand), "adjustment")
        ELSE led

\* The loop over diffs inside one transaction; an execute that writes a row
\* for an id in failing raises.
RECURSIVE SaveLoop(_, _, _, _)
SaveLoop(led, diffs, new_map, failing) ==
    IF diffs = <<>> THEN [led |-> led, failed |-> 0]
    ELSE LET rid == Head(diffs)
             nxt == AdjustStmt(led, rid, new_map[rid])
         IN  IF nxt # led /\ rid \in failing
             THEN [led |-> led, failed |-> rid]
             ELSE SaveLoop(nxt, Tail(diffs), new_map, failing)

\* save_count_adjustments(conn, base_map, new_map): returns 0 without a
\* transaction when nothing differs; otherwise commits the whole loop, or
\* rolls all of it back when an execute raises, and returns len(diffs).
save_count_adjustments(led, base_map, new_map, failing) ==
    LET diffs == Diffs(base_map, new_map)
        res == SaveLoop(led, diffs, new_map, failing)
    IN  IF diffs = <<>> THEN [led |-> led, ret |-> 0, failed |-> 0]
        ELSE IF res.failed # 0
        THEN [led |-> led, ret |-> 0, failed |-> res.failed]
        ELSE [led |-> res.led, ret |-> Len(diffs), failed |-> 0]

\* ------------------------------------------------------- master list
\* row["vendor"] or None
OrNone(x) == IF x = "" THEN SqlNull ELSE x

\* save_weekly_usage(updates): update ... set weekly_usage for each row.
save_weekly_usage(ings, updates) ==
    [i \in DOMAIN ings |->
        IF i \in DOMAIN updates
        THEN [ings[i] EXCEPT !.weekly_usage = updates[i]]
        ELSE ings[i]]

\* The Settings page's query: coalesce(weekly_usage,0), coalesce(par,0).
settings_df(ings) ==
    [i \in DOMAIN ings |->
        [vendor |-> ings[i].vendor, area |-> ings[i].area,
         weekly_usage |-> ings[i].weekly_usage,
         par_override |-> Coalesce(ings[i].par, 0)]]

\* An update that also writes the cost column.
settings_save_cost(ings, edited) ==
    [i \in DOMAIN ings |->
        [ings[i] EXCEPT !.vendor = OrNone(edited[i].vendor),
                        !.area = OrNone(edited[i].area),
                        !.weekly_usage = edited[i].weekly_usage,
                        !.par = <<edited[i].par_override>>,
                        !.cost_per_unit = <<0>>]]

\* Save Changes: every row of the edited grid is written back.
settings_save(ings, edited) ==
    [i \in DOMAIN ings |->
        [ings[i] EXCEPT !.vendor = OrNone(edited[i].vendor),
                        !.area = OrNone(edited[i].area),
                        !.weekly_usage = edited[i].weekly_usage,
                        !.par = <<edited[i].par_override>>]]

\* -------------------------------------------------------------- planning
WeekDays == 7        \* weekly_usage / 7.0
ParDays == 11        \* daily_usage * 11
Round2Step == 1000   \* round(x, 2): 0.01 in ticks of 0.00001
Unit == 100000       \* 1.0 in ticks of 0.00001

\* The nearest multiple of m to n, a tie to the even multiple.
RoundStep(n, m) ==
    LET q == n \div m
        r == n % m
    IN  IF 2 * r < m THEN q * m
        ELSE IF 2 * r > m THEN (q + 1) * m
        ELSE IF q % 2 = 0 THEN q * m ELSE (q + 1) * m

\* (n / d).round(4), in ticks.
RoundDiv4(n, d) == RoundStep(n, d * Round4Step) \div d

\* clip without its lower bound.
Clip0NoFloor(x) == x

\* .clip(lower=0) and greatest(0, x)
Clip0(x) == IF x < 0 THEN 0 ELSE x

\* pages/7_Order_Planning.py: the query and the derived columns, one row
\* per ingredient.  par_calc is the formula rounded to 4 decimal places.
page7_df(led, ings) ==
    [i \in DOMAIN ings |->
        LET weekly_usage == ings[i].weekly_usage
            on_hand == Coalesce(SqlSum(led, i), 0)
            par_override == Coalesce(ings[i].par, 0)
            cost == Coalesce(ings[i].cost_per_unit, 0)
            par_calc == RoundDiv4(weekly_usage * ParDays, WeekDays)
            par == IF par_override # 0 /\ par_override > 0
                   THEN par_override ELSE par_calc
            to_order == Clip0(par - on_hand)
        IN  [vendor |-> ings[i].vendor, weekly_usage |-> weekly_usage,
             on_hand |-> on_hand, par_override |-> par_override,
             par |-> par, to_order |-> to_order,
             line_total |-> RoundStep(to_order * cost, Round2Step)]]

\* order_planning_df(vendor): one row per ingredient (of the vendor, when
\* one is given; "" stands for None, "if vendor:").  The query divides by 7.0 without rounding: par_level7 and
\* to_order7 are the columns par_level and to_order times WeekDays.
order_planning_df(led, ings, vendor) ==
    [i \in {j \in DOMAIN ings : vendor = "" \/ ings[j].vendor = vendor} |->
        LET current_stock == Coalesce(SqlSum(led, i), 0)
            par_level7 == IF ings[i].par # <<>>
                          THEN WeekDays * ings[i].par[1]
                          ELSE ings[i].weekly_usage * ParDays
        IN  [vendor |-> ings[i].vendor,
             weekly_usage |-> ings[i].weekly_usage,
             par_level7 |-> par_level7,
             current_stock |-> current_stock,
             to_order7 |-> Clip0(par_level7 - WeekDays * current_stock)]]

\* plan["est_cost"] = (to_order * cost_per_unit).fillna(0.0), times WeekDays.
est_cost7(plan, ings, i) ==
    plan[i].to_order7 * Coalesce(ings[i].cost_per_unit, 0)

RECURSIVE SumSet(_, _)
SumSet(S, f) ==
    IF S = {} THEN 0
    ELSE LET x == Min(S) IN f[x] + SumSet(S \ {x}, f)

\* The vendor names of the model in ascending order of their strings.
VendorOrder == <<"", "Bakemark", "Dawn">>

\* plan.groupby("vendor", dropna=False)["est_cost"].sum(): one group per
\* vendor value, the keys ascending and the null key last.
po_cost_by_vendor(plan, ings) ==
    LET keys == {plan[i].vendor : i \in DOMAIN plan}
        named == SelectSeq(VendorOrder, LAMBDA v : v \in keys)
        order == IF SqlNull \in keys THEN Append(named, SqlNull) ELSE named
        cost == [i \in DOMAIN plan |-> est_cost7(plan, ings, i)]
    IN  [k \in 1..Len(order) |->
            [vendor |-> order[k],
             total7 |-> SumSet({i \in DOMAIN plan :
                                   plan[i].vendor = order[k]}, cost)]]

\* ------------------------------------------------------------ the state
NoMap == [i \in {} |-> 0]

Idle == [pc |-> "idle", rows |-> <<>>, oh |-> NoMap, count_now |-> NoMap,
         posted |-> 0]

\* The last handler run: its rows and targets, the on-hand and the ledger
\* length before it, its count (posted, or the return value; shown to the
\* user only when nothing raised) and the id whose insert raised (failed,
\* 0 for none).
NoLast == [op |-> "none", rows |-> <<>>, target |-> NoMap,
           before |-> [i \in Ids |-> 0], lenBefore |-> 0, count |-> 0,
           failed |-> 0]

Init ==
    /\ ingredients = [i \in Ids |->
           [name |-> ItemNames[i], unit |-> "kg", area |-> "Kitchen",
            vendor |-> "Dawn", weekly_usage |-> 0, par |-> <<>>,
            cost_per_unit |-> <<>>]]
    /\ ledger = <<>>
    /\ sess = [s \in Sessions |-> Idle]
    /\ last = NoLast
    /\ edits = 0

RowSet(rowseq) == {rowseq[k] : k \in 1..Len(rowseq)}

\* df["count_now"] = 0.0, then the user's entries.
CountNow(rowseq, entered) ==
    [r \in RowSet(rowseq) |-> IF r \in DOMAIN entered THEN entered[r] ELSE 0]

Record(op, rows, target, count, failed) ==
    [op |-> op, rows |-> rows, target |-> target,
     before |-> onhand_df(ledger, ingredients), lenBefore |-> Len(ledger),
     count |-> count, failed |-> failed]

\* Post Adjustments, one run of the script: the page reads the rows of the
\* area and their on-hand, the grid holds the counts the user entered
\* (count_now starts at 0.0), the loop posts the deltas.  inventory_app.py
\* loops over the data editor's return value (isFrame); inventory_kiosk.py
\* loops only when the value the session state holds under the editor's
\* key is a DataFrame, and posts nothing otherwise.
PostAdjustments(area, entered, failing, isFrame) ==
    LET rowseq == ingredient_rows_by_area(ingredients, area)
        oh == onhand_df(ledger, ingredients)
        count_now == CountNow(rowseq, entered)
        res == IF isFrame
               THEN PostLoop(ledger, rowseq, oh, count_now, failing, 0)
               ELSE [led |-> ledger, posted |-> 0, failed |-> 0]
    IN  /\ rowseq # <<>>
        /\ DOMAIN entered \subseteq RowSet(rowseq)
        /\ Len(res.led) <= MaxLedger
        /\ ledger' = res.led
        /\ last' = Record(IF isFrame THEN "post" ELSE "post_noframe",
                          rowseq, count_now, res.posted, res.failed)
        /\ UNCHANGED <<ingredients, sess, edits>>

\* Save Quick Out with its button never disabled.
SaveQuickOutNoGuard(area, sel, qty, source, failing) ==
    LET rowseq == ingredient_rows_by_area(ingredients, area)
    IN  /\ sel \in RowSet(rowseq)
        /\ Len(ledger) < MaxLedger
        /\ ledger' = IF sel \in failing THEN ledger
                     ELSE insert_txn(ledger, sel, "out", qty, source)
        /\ last' = Record("quick", <<sel>>, NoMap, 0,
                          IF sel \in failing THEN sel ELSE 0)
        /\ UNCHANGED <<ingredients, sess, edits>>

\* Save Quick Out: one 'out' row for the selected item of the area; the
\* button is disabled while qty <= 0.
SaveQuickOut(area, sel, qty, source, failing) ==
    LET rowseq == ingredient_rows_by_area(ingredients, area)
    IN  /\ sel \in RowSet(rowseq)
        /\ qty > 0
        /\ Len(ledger) < MaxLedger
        /\ ledger' = IF sel \in failing THEN ledger
                     ELSE insert_txn(ledger, sel, "out", qty, source)
        /\ last' = Record("quick", <<sel>>, NoMap, 0,
                          IF sel \in failing THEN sel ELSE 0)
        /\ UNCHANGED <<ingredients, sess, edits>>

\* Save Counts: save_count_adjustments on a base_map and a new_map.
SaveCounts(base_map, new_map, failing) ==
    LET res == save_count_adjustments(ledger, base_map, new_map, failing)
    IN  /\ Len(res.led) <= MaxLedger
        /\ ledger' = res.led
        /\ last' = Record("save", Diffs(base_map, new_map), new_map,
                          res.ret, res.failed)
        /\ UNCHANGED <<ingredients, sess, edits>>

\* Save Weekly Usage of show_settings.
SaveWeeklyUsage(updates) ==
    /\ edits < MaxEdits
    /\ edits' = edits + 1
    /\ ingredients' = save_weekly_usage(ingredients, updates)
    /\ last' = Record("usage", <<>>, NoMap, 0, 0)
    /\ UNCHANGED <<ledger, sess>>

\* Save Changes of the Settings page, the user having edited row i.
SettingsSave(i, row) ==
    /\ edits < MaxEdits
    /\ edits' = edits + 1
    /\ ingredients' =
           settings_save(ingredients,
                         [settings_df(ingredients) EXCEPT ![i] = row])
    /\ last' = Record("settings", <<>>, NoMap, 0, 0)
    /\ UNCHANGED <<ledger, sess>>

\* A planning query (order_planning_df, pages/7_Order_Planning.py): reads.
PlanningQuery ==
    /\ last' = Record("plan", <<>>, NoMap, 0, 0)
    /\ UNCHANGED <<ingredients, ledger, sess, edits>>

\* The inserts the store rejects in one run: none, or those of one id.
FailChoices == {{}} \cup {{i} : i \in Ids}

PartialMaps(D, V) == UNION {[S -> V] : S \in SUBSET D}

\* base_map of a call: a value for every id (a missing id reads as 0.0).
BaseMaps == [Ids -> Counts]

SettingsRows ==
    [vendor : {""}, area : Areas,
     weekly_usage : UsageVals, par_override : ParVals]

\* The handlers of the pages, one request at a time, the store accepting
\* every insert.  A new_map entry equal to its base_map entry behaves as a
\* missing one, so new_map ranges over the total maps here.
Next ==
    \/ \E area \in Areas, entered \in PartialMaps(Ids, Counts),
          isFrame \in BOOLEAN :
          PostAdjustments(area, entered, {}, isFrame)
    \/ \E area \in Areas, sel \in Ids, qty \in QuickQtys,
          source \in Reasons :
          SaveQuickOut(area, sel, qty, source, {})
    \/ \E base_map \in BaseMaps, new_map \in [Ids -> Counts] :
          SaveCounts(base_map, new_map, {})
    \/ \E updates \in [Ids -> UsageVals] : SaveWeeklyUsage(updates)
    \/ \E i \in Ids, row \in SettingsRows : SettingsSave(i, row)
    \/ PlanningQuery

Spec == Init /\ [][Next]_vars

\* The same handlers with a store that rejects the inserts of one id.
NextFail ==
    \/ \E area \in Areas, entered \in PartialMaps(Ids, Counts),
          failing \in FailChoices :
          PostAdjustments(area, entered, failing, TRUE)
    \/ \E area \in Areas, sel \in Ids, qty \in QuickQtys,
          source \in Reasons, failing \in FailChoices :
          SaveQuickOut(area, sel, qty, source, failing)
    \/ \E base_map \in BaseMaps, new_map \in PartialMaps(Ids, Counts),
          failing \in FailChoices :
          SaveCounts(base_map, new_map, failing)

SpecFail == Init /\ [][NextFail]_vars


\* ------------------------------------------------- direct calls
ApiQtys == {-5, 0, 3}

\* insert_txn called directly with any quantity: the insert is executed as
\* given.
InsertTxnCall(id, ttype, qty, source) ==
    /\ Len(ledger) < MaxLedger
    /\ ledger' = insert_txn(ledger, id, ttype, qty, source)
    /\ last' = Record("insert", <<id>>, [i \in {id} |-> qty], 0, 0)
    /\ UNCHANGED <<ingredients, sess, edits>>

NextApi ==
    \E id \in Ids, ttype \in {"in", "out"}, qty \in ApiQtys,
       source \in {"adjustment"} \cup Reasons :
       InsertTxnCall(id, ttype, qty, source)

SpecApi == Init /\ [][NextApi]_vars

\* ------------------------------------- two sessions posting at once
\* Counts with at most 4 decimal places.
ConcCounts == {0, Round4Step, 2 * Round4Step}

\* The script run of session s up to the loop: rows and on-hand are read.
PostRead(s, area, entered) ==
    LET rowseq == ingredient_rows_by_area(ingredients, area)
    IN  /\ sess[s].pc = "idle"
        /\ rowseq # <<>>
        /\ DOMAIN entered \subseteq RowSet(rowseq)
        /\ sess' = [sess EXCEPT ![s] =
               [pc |-> "loop", rows |-> rowseq,
                oh |-> onhand_df(ledger, ingredients),
                count_now |-> CountNow(rowseq, entered), posted |-> 0]]
        /\ UNCHANGED <<ingredients, ledger, last, edits>>

\* One iteration of the loop: the row's insert_txn commits on its own.
PostRow(s) ==
    LET r == Head(sess[s].rows)
        delta == RowDelta(sess[s].oh, sess[s].count_now, r)
    IN  /\ sess[s].pc = "loop"
        /\ sess[s].rows # <<>>
        /\ IF Abs(delta) < 1
           THEN /\ ledger' = ledger
                /\ sess' = [sess EXCEPT ![s].rows = Tail(@)]
           ELSE /\ ledger' = insert_txn(ledger, r,
                                        IF delta > 0 THEN "in" ELSE "out",
                                        Abs(delta), "adjustment")
                /\ sess' = [sess EXCEPT ![s].rows = Tail(@),
                                        ![s].posted = @ + 1]
        /\ UNCHANGED <<ingredients, last, edits>>

\* The loop is over: the count is shown and the script reruns.
PostDone(s) ==
    /\ sess[s].pc = "loop"
    /\ sess[s].rows = <<>>
    /\ sess' = [sess EXCEPT ![s].pc = "done"]
    /\ UNCHANGED <<ingredients, ledger, last, edits>>

NextConc ==
    \/ \E s \in Sessions, area \in Areas,
          entered \in PartialMaps(Ids, ConcCounts) :
          PostRead(s, area, entered)
    \/ \E s \in Sessions : PostRow(s)
    \/ \E s \in Sessions : PostDone(s)

SpecConc == Init /\ [][NextConc]_vars

\* ------------------------------------- the planning pages and Settings
\* What a master list row can hold: a named vendor, the empty string or
\* NULL; a par override or NULL; a cost or NULL.
Profiles ==
    { [vendor |-> "Dawn", weekly_usage |-> 70 * Unit, par |-> <<>>,
       cost_per_unit |-> <<2>>],
      [vendor |-> "Dawn", weekly_usage |-> Unit, par |-> <<>>,
       cost_per_unit |-> <<>>],
      [vendor |-> "", weekly_usage |-> 70 * Unit, par |-> <<50 * Unit>>,
       cost_per_unit |-> <<3>>],
      [vendor |-> SqlNull, weekly_usage |-> 35 * Unit, par |-> <<>>,
       cost_per_unit |-> <<2>>] }

PlanCounts == {20 * Unit, 120 * Unit}
PlanQuickQtys == {0, 3 * Unit}
PlanUsageVals == {35 * Unit}
PlanAreas == {"Kitchen", "Utility Room"}

PlanSettingsRows ==
    [vendor : {"Bakemark"}, area : PlanAreas,
     weekly_usage : {70 * Unit}, par_override : {0, 50 * Unit}]

InitPlan ==
    /\ ingredients \in
           {[i \in Ids |->
                [name |-> ItemNames[i], unit |-> "kg", area |-> "Kitchen",
                 vendor |-> p[i].vendor,
                 weekly_usage |-> p[i].weekly_usage, par |-> p[i].par,
                 cost_per_unit |-> p[i].cost_per_unit]] :
            p \in [Ids -> Profiles]}
    /\ ledger = <<>>
    /\ sess = [s \in Sessions |-> Idle]
    /\ last = NoLast
    /\ edits = 0

NextPlan ==
    \/ \E area \in PlanAreas, i \in Ids, c \in PlanCounts :
          /\ PostAdjustments(area, [j \in {i} |-> c], {}, TRUE)
          /\ Len(ledger') <= MaxPlanLedger
    \/ \E area \in PlanAreas, sel \in Ids, qty \in PlanQuickQtys,
          source \in Reasons :
          /\ SaveQuickOut(area, sel, qty, source, {})
          /\ Len(ledger') <= MaxPlanLedger
    \/ \E updates \in [Ids -> PlanUsageVals] : SaveWeeklyUsage(updates)
    \/ \E i \in Ids, row \in PlanSettingsRows : SettingsSave(i, row)
    \/ PlanningQuery

SpecPlan == InitPlan /\ [][NextPlan]_vars

\* ================================================================ claims
\* Sum of the quantities of the movements of id with the given direction.
RECURSIVE QtySum(_, _, _)
QtySum(led, id, ttype) ==
    IF led = <<>> THEN 0
    ELSE (IF Head(led).ingredient_id = id /\ Head(led).type = ttype
          THEN Head(led).qty ELSE 0) + QtySum(Tail(led), id, ttype)

HasMovement(led, id) == \E k \in 1..Len(led) : led[k].ingredient_id = id

\* The rows the last handler run appended.
Appended == SubSeq(ledger, last.lenBefore + 1, Len(ledger))

OnHandNow(i) == onhand_df(ledger, ingredients)[i]

\* C1: in every reachable state the on-hand the code derives for an
\* ingredient (onhand_df and load_area_df) is the sum of the quantities of
\* its 'in' movements minus the sum of those of its 'out' movements, and is
\* 0 for an ingredient with no movements.
C1_OnHandIsSignedSum ==
    \A i \in Ids :
        /\ OnHandNow(i) = QtySum(ledger, i, "in") - QtySum(ledger, i, "out")
        /\ ~HasMovement(ledger, i) => OnHandNow(i) = 0
        /\ \A a \in Areas :
              i \in DOMAIN load_area_df(ledger, ingredients, a) =>
                  load_area_df(ledger, ingredients, a)[i] =
                      QtySum(ledger, i, "in") - QtySum(ledger, i, "out")

\* An ingredient with an 'in' and an 'out' movement beside one with none.
C1_Witness ==
    \E i, j \in Ids :
        /\ QtySum(ledger, i, "in") > 0
        /\ QtySum(ledger, i, "out") > 0
        /\ ~HasMovement(ledger, j)
        /\ OnHandNow(i) # 0

\* C2: after one uninterrupted reconcile of I to X by Post Adjustments
\* (the loop ran on a fresh read, no insert raised) the derived on-hand of
\* I differs from X by less than 1e-9.
C2_ReconcileReachesTarget ==
    (last.op = "post" /\ last.failed = 0) =>
        \A i \in DOMAIN last.target : Abs(OnHandNow(i) - last.target[i]) < 1

\* C3: reconciling the same ingredients to the same quantities twice in a
\* row appends exactly one movement in total for each ingredient the run
\* reconciles (a row of the page; an entry of diffs) whose quantity differs
\* from its starting on-hand, and the second run appends nothing (Post
\* Adjustments, and save_count_adjustments on the same maps).
C3_TwiceAppendsOne ==
    [][(/\ last.op \in {"post", "save"}
        /\ last'.op = last.op
        /\ last'.target = last.target
        /\ last'.rows = last.rows)
       => /\ ledger' = ledger
          /\ \A i \in RowSet(last.rows) :
                last.target[i] # last.before[i] =>
                    Len(TxnsOf(SubSeq(ledger', last.lenBefore + 1,
                                      Len(ledger')), i)) = 1]_vars

\* C4: reconciling an ingredient to a quantity equal to its current
\* on-hand appends no movement for it and leaves its part of the ledger
\* unchanged, in Post Adjustments and in save_count_adjustments; no
\* zero-quantity movement is ever written.
C4_EqualCountIsNoOp ==
    [][/\ last'.op \in {"post", "save"} =>
            /\ \A i \in DOMAIN last'.target :
                  last'.target[i] = OnHandNow(i) =>
                      TxnsOf(ledger', i) = TxnsOf(ledger, i)
            /\ (\A i \in DOMAIN last'.target :
                   last'.target[i] = OnHandNow(i)) => ledger' = ledger
       /\ \A k \in 1..Len(ledger') : ledger'[k].qty # 0]_vars

\* save_count_adjustments ran its statement for an ingredient whose new
\* value is its non-zero on-hand, and appended nothing.
C4_Witness ==
    /\ last.op = "save"
    /\ \E i \in RowSet(last.rows) :
          /\ last.target[i] = last.before[i]
          /\ last.before[i] # 0
    /\ Len(ledger) = last.lenBefore
    /\ Len(ledger) > 0

\* C5: when two reconcile requests for the same ingredient with counts X
\* and Y interleave in any way, the final derived on-hand of the
\* ingredient is X or Y.
C5_FinalIsOneOfTheCounts ==
    (\A s \in Sessions : sess[s].pc = "done") =>
        \A i \in Ids :
            (\A s \in Sessions : i \in DOMAIN sess[s].count_now) =>
                \E s \in Sessions : OnHandNow(i) = sess[s].count_now[i]

\* C6: insert_txn called with a negative or zero quantity fails and
\* appends no row: every on-hand is the same after the call as before.
C6_NonPositiveQtyRejected ==
    (last.op = "insert" /\ \E i \in DOMAIN last.target : last.target[i] <= 0)
        => /\ last.failed # 0
           /\ Len(ledger) = last.lenBefore
           /\ \A i \in Ids : OnHandNow(i) = last.before[i]

\* C7: when the append for one item of a batch raises, every other item of
\* the batch whose quantity differs from its on-hand still has its
\* corrective movement committed.
C7_OthersStillReconciled ==
    (last.op \in {"post", "save"} /\ last.failed # 0) =>
        \A j \in DOMAIN last.target \ {last.failed} :
            last.target[j] # last.before[j] => HasMovement(Appended, j)

\* C8: under every handler the ledger after a step is the ledger before it
\* plus zero or more appended rows.
C8_AppendOnly ==
    [][/\ Len(ledger') >= Len(ledger)
       /\ SubSeq(ledger', 1, Len(ledger)) = ledger]_vars

\* A row was appended behind the rows already written.
C8_Witness ==
    /\ last.lenBefore >= 1
    /\ Len(ledger) > last.lenBefore
    /\ edits > 0

\* C9: when the quantity differs from the on-hand, reconcile appends
\* exactly one movement for the ingredient (a row of the page; an entry of
\* diffs): 'in' if delta > 0 and 'out'
\* otherwise, of magnitude |delta| rounded to 4 decimal places, with source
\* "adjustment" (Post Adjustments and save_count_adjustments).
C9_OneRoundedMovement ==
    (last.op \in {"post", "save"} /\ last.failed = 0) =>
        \A i \in RowSet(last.rows) :
            LET delta == last.target[i] - last.before[i]
            IN  delta # 0 =>
                    TxnsOf(Appended, i) =
                        <<[ingredient_id |-> i,
                           type |-> IF delta > 0 THEN "in" ELSE "out",
                           qty |-> Round4(Abs(delta)),
                           source |-> "adjustment"]>>

\* C10: the count a reconciliation request reports is the number of rows
\* it appended.
C10_CountIsRowsAppended ==
    (last.op \in {"post", "save"} /\ last.failed = 0) =>
        last.count = Len(ledger) - last.lenBefore

\* The rows the planning queries compute in the current state.
Page7Now == page7_df(ledger, ingredients)

PlanNow == order_planning_df(ledger, ingredients, "")

\* par_override is present and > 0.
HasOverride(i) == ingredients[i].par # <<>> /\ ingredients[i].par[1] > 0

\* C11: for every ingredient the par level of a planning query
\* (pages/7_Order_Planning.py's par, order_planning_df's par_level) is
\* par_override when that is present and > 0, and exactly
\* (weekly_usage / 7) * 11 otherwise.
C11_ParLevel ==
    last.op = "plan" =>
        \A i \in Ids :
            IF HasOverride(i)
            THEN /\ Page7Now[i].par = ingredients[i].par[1]
                 /\ PlanNow[i].par_level7 = WeekDays * ingredients[i].par[1]
            ELSE /\ WeekDays * Page7Now[i].par =
                        ingredients[i].weekly_usage * ParDays
                 /\ PlanNow[i].par_level7 =
                        ingredients[i].weekly_usage * ParDays

\* C12: for every ingredient and every on-hand, above par and negative
\* included, to_order of a planning query is max(0, par_level - on_hand)
\* of the same row and is never negative.
C12_ToOrder ==
    last.op = "plan" =>
        \A i \in Ids :
            LET short == Page7Now[i].par - Page7Now[i].on_hand
                short7 == PlanNow[i].par_level7
                              - WeekDays * PlanNow[i].current_stock
            IN  /\ Page7Now[i].to_order = IF short > 0 THEN short ELSE 0
                /\ Page7Now[i].to_order >= 0
                /\ PlanNow[i].to_order7 = IF short7 > 0 THEN short7 ELSE 0
                /\ PlanNow[i].to_order7 >= 0

\* A plan with on-hand 120 against par 110 (to_order 0) beside an
\* ingredient below its par.
C12_Witness ==
    /\ last.op = "plan"
    /\ \E i, j \in Ids :
          /\ Page7Now[i].on_hand = 120 * Unit
          /\ Page7Now[i].par = 110 * Unit
          /\ Page7Now[i].to_order = 0
          /\ PlanNow[i].to_order7 = 0
          /\ Page7Now[j].on_hand < Page7Now[j].par
          /\ Page7Now[j].to_order > 0
          /\ PlanNow[j].to_order7 > 0

\* The estimated PO cost by vendor of show_order_planning, all vendors.
TotalsNow == po_cost_by_vendor(PlanNow, ingredients)

\* A vendor that is NULL or the empty string.
Unassigned(v) == v \in {SqlNull, ""}

\* C13: in the per-vendor totals each named vendor's total is the sum of
\* the line costs of its ingredients; the ingredients whose vendor is NULL
\* or the empty string are all in one group, whose total is the sum of
\* their line costs and which comes after every named vendor.
C13_VendorTotals ==
    last.op = "plan" =>
        LET cost == [i \in Ids |-> est_cost7(PlanNow, ingredients, i)]
            loose == {i \in Ids : Unassigned(ingredients[i].vendor)}
            groups == {k \in DOMAIN TotalsNow :
                          Unassigned(TotalsNow[k].vendor)}
        IN  /\ \A k \in DOMAIN TotalsNow \ groups :
                  TotalsNow[k].total7 =
                      SumSet({i \in Ids : ingredients[i].vendor =
                                            TotalsNow[k].vendor}, cost)
            /\ loose # {} =>
                  /\ groups = {Len(TotalsNow)}
                  /\ TotalsNow[Len(TotalsNow)].total7 = SumSet(loose, cost)
            /\ loose = {} => groups = {}

\* C14: every ingredient of the master list is a row of the on-hand listing
\* (onhand_df; load_area_df of its area) and of both planning outputs, with
\* an on-hand that is a number, and that is 0 when the ingredient has no
\* movements.
C14_EveryIngredientListed ==
    \A i \in Ids :
        LET area_df == load_area_df(ledger, ingredients, ingredients[i].area)
            oh == onhand_df(ledger, ingredients)
        IN  /\ i \in DOMAIN oh
            /\ i \in DOMAIN area_df
            /\ i \in DOMAIN Page7Now
            /\ i \in DOMAIN PlanNow
            /\ {oh[i], area_df[i], Page7Now[i].on_hand,
                PlanNow[i].current_stock} \subseteq Int
            /\ ~HasMovement(ledger, i) =>
                  /\ oh[i] = 0
                  /\ area_df[i] = 0
                  /\ Page7Now[i].on_hand = 0
                  /\ PlanNow[i].current_stock = 0

\* A planning query over an ingredient with no movements beside one with
\* a movement.
C14_Witness ==
    /\ last.op = "plan"
    /\ \E i, j \in Ids :
          /\ ~HasMovement(ledger, i)
          /\ HasMovement(ledger, j)
          /\ PlanNow[i].current_stock = 0
          /\ Page7Now[j].on_hand # 0

C16_PositiveQuantities ==
    \A k \in 1..Len(ledger) :
        /\ ledger[k].type \in {"in", "out"}
        /\ ledger[k].qty > 0

\* A Quick Out row followed by an adjustment of save_count_adjustments.
C16_Witness ==
    /\ last.op = "save"
    /\ Len(ledger) > last.lenBefore
    /\ \E k \in 1..Len(ledger) :
          ledger[k].type = "out" /\ ledger[k].source \in Reasons
    /\ \E k \in 1..Len(ledger) :
          ledger[k].type = "in" /\ ledger[k].source = "adjustment"

\* C17: once Save Changes has stored par_override = 0 for an ingredient,
\* pages/7_Order_Planning.py and order_planning_df compute the same par
\* level for it, (weekly_usage / 7) * 11, and the same to_order.
C17_PlanningQueriesAgree ==
    (last.op = "plan" /\ edits > 0) =>
        \A i \in Ids :
            ingredients[i].par = <<0>> =>
                /\ WeekDays * Page7Now[i].par = PlanNow[i].par_level7
                /\ PlanNow[i].par_level7 =
                       ingredients[i].weekly_usage * ParDays
                /\ WeekDays * Page7Now[i].to_order = PlanNow[i].to_order7

\* C18: Post Adjustments appends a movement only for the ingredients whose
\* Physical Count the user entered: a listed ingredient whose count_now was
\* left at its initial value gets no movement and keeps its on-hand.
C18_OnlyEnteredRowsPosted ==
    [][\A area \in Areas, entered \in PartialMaps(Ids, Counts),
          isFrame \in BOOLEAN :
          PostAdjustments(area, entered, {}, isFrame) =>
              \A r \in RowSet(ingredient_rows_by_area(ingredients, area))
                          \ DOMAIN entered :
                  /\ TxnsOf(ledger', r) = TxnsOf(ledger, r)
                  /\ onhand_df(ledger', ingredients')[r] =
                         onhand_df(ledger, ingredients)[r]]_vars

\* C19: after save_count_adjustments(conn, base_map, new_map) has committed
\* with no other writer, the derived on-hand of every id of new_map is
\* new_map[id], for any base_map.
C19_SaveReachesNewMap ==
    (last.op = "save" /\ last.failed = 0) =>
        \A i \in DOMAIN last.target : OnHandNow(i) = last.target[i]

\* C20: the derived on-hand of every ingredient is >= 0 in every state
\* reachable from the empty ledger by Post Adjustments, Save Quick Out and
\* Save Counts.
C20_OnHandNeverNegative ==
    \A i \in Ids : OnHandNow(i) >= 0

====
